---- MODULE Spec2Model ----
(***************************************************************************)
(* Model of the Xcode project repair scripts of the Stream repository:     *)
(*   fix_xcode_uuid_collisions.py  (class XcodeProjectFixer)               *)
(*   fix_xcode_uuid_precise.py     (class PreciseXcodeProjectFixer)        *)
(*   fix_infoplist_conflict.py     (function fix_infoplist_conflict)       *)
(*                                                                         *)
(* A text is a sequence of tokens.  A token <<kind, n>> stands for one     *)
(* fixed piece of text of project.pbxproj; the pieces are chosen so that   *)
(* no piece is a substring of another and the searches of the scripts      *)
(* (str.replace, str.count, `in`, re.search, re.findall) only ever match   *)
(* on token boundaries.                                                    *)
(*   <<"id", u>>     a 24 character upper case hex identifier              *)
(*   <<"cmt", l>>    " /* label */"  (l = 0: a file label,                 *)
(*                   l = i: the group name of the i-th configured entry)   *)
(*   <<"eq", 0>>     " = {"                                                *)
(*   <<"isa", k>>    " isa = K; "  (1 PBXGroup, 2 PBXBuildFile)            *)
(*   <<"close", 0>>  "}"           <<"open", 0>>  a stray "{"              *)
(*   <<"ch", 0>>     "children = ("                                        *)
(*   <<"files", 0>>  "files = ("   <<"pclose", 0>> ")"                     *)
(*   <<"hdr", 0>>    "// !$*UTF8*$!"                                       *)
(*   <<"sec", s>>    "/* Begin S section */"                               *)
(*   <<"cr", 0>>, <<"lf", 0>>   the bytes 0x0D and 0x0A                    *)
(*   <<"bad", 0>>    a byte that is not valid UTF-8                        *)
(*   <<"genyes", 0>> "GENERATE_INFOPLIST_FILE = YES;"                      *)
(*   <<"genno", 0>>  "GENERATE_INFOPLIST_FILE = NO;"                       *)
(*   <<"nltabs", 0>> "\n\t\t\t\t"                                          *)
(*   <<"ipfile", 0>> "INFOPLIST_FILE = StreamApp/Info.plist;"              *)
(*   <<"ipisa", 0>>  "isa = PBXBuildFile; fileRef = "                      *)
(*   <<"semisp", 0>> "; "   <<"semi", 0>> ";"   <<"comma", 0>> ","         *)
(***************************************************************************)
EXTENDS Integers, Sequences, FiniteSets, TLC

(***************************************************************************)
(* Bounds of the model.                                                    *)
(***************************************************************************)
\* number of identifiers the random generator can produce
NumUuid == 4
\* number of entries of the configured collision table (10 in the source)
NumOld == 2
\* number of segments a document body is built from
MaxSegs == 3

(***************************************************************************)
(* Program constants.                                                      *)
(***************************************************************************)
\* required_sections has six entries
NumSections == 6
\* detect_collisions and validate_fix: more than two occurrences
CollisionThreshold == 2

Uuid == 1..NumUuid
OldUuids == 1..NumOld

Id(u) == <<"id", u>>
Cmt(l) == <<"cmt", l>>
Tok(k) == <<k, 0>>

(***************************************************************************)
(* Python string operations, on token sequences.                           *)
(***************************************************************************)
\* s[i:] starts with p
StartsAt(s, p, i) ==
    /\ i >= 1
    /\ i + Len(p) - 1 <= Len(s)
    /\ \A k \in 1..Len(p) : s[i + k - 1] = p[k]

\* p in s
Contains(s, p) == \E i \in 1..(Len(s) + 1) : StartsAt(s, p, i)

\* s.startswith(p)
StartsWith(s, p) == StartsAt(s, p, 1)

\* s.replace(old, new, count): the first `count` non-overlapping occurrences,
\* left to right; count < 0 is "all".  old is never empty here.
RECURSIVE ReplaceFrom(_, _, _, _, _)
ReplaceFrom(s, old, new, i, count) ==
    IF i > Len(s) \/ count = 0
    THEN SubSeq(s, i, Len(s))
    ELSE IF StartsAt(s, old, i)
         THEN new \o ReplaceFrom(s, old, new, i + Len(old), count - 1)
         ELSE <<s[i]>> \o ReplaceFrom(s, old, new, i + 1, count)

StrReplace(s, old, new) == ReplaceFrom(s, old, new, 1, -1)

StrReplaceFirst(s, old, new) == ReplaceFrom(s, old, new, 1, 1)

\* s.count(p): non-overlapping occurrences
RECURSIVE CountFrom(_, _, _)
CountFrom(s, p, i) ==
    IF i > Len(s) THEN 0
    ELSE IF StartsAt(s, p, i)
         THEN 1 + CountFrom(s, p, i + Len(p))
         ELSE CountFrom(s, p, i + 1)

StrCount(s, p) == CountFrom(s, p, 1)

\* re.findall(r'[A-F0-9]{24}', s): the identifiers of s, in order
RECURSIVE FindAllUuids(_)
FindAllUuids(s) ==
    IF s = <<>> THEN <<>>
    ELSE IF Head(s)[1] = "id"
         THEN <<Head(s)[2]>> \o FindAllUuids(Tail(s))
         ELSE FindAllUuids(Tail(s))

Range(f) == {f[i] : i \in DOMAIN f}

\* number of occurrences of identifier u in s
UuidCount(s, u) == Cardinality({i \in DOMAIN s : s[i] = Id(u)})

(***************************************************************************)
(* The file system: open(..., 'r', encoding='utf-8') and open(..., 'w',    *)
(* encoding='utf-8') work in text mode with newline=None.                  *)
(***************************************************************************)
\* decoding fails on a byte sequence that is not UTF-8
Decodable(bytes) == ~Contains(bytes, <<Tok("bad")>>)

\* f.read() in universal newlines mode: "\r\n" and "\r" become "\n"
ReadText(bytes) ==
    StrReplace(
        StrReplace(
            StrReplace(bytes, <<Tok("cr"), Tok("nltabs")>>, <<Tok("nltabs")>>),
            <<Tok("cr"), Tok("lf")>>, <<Tok("lf")>>),
        <<Tok("cr")>>, <<Tok("lf")>>)

\* os.linesep of the platform the scripts are written for (/Users/...: macOS)
LineSep == <<Tok("lf")>>

\* f.write(text + "\n"): a line break is added at every save
WriteTextWithNewline(text) == StrReplace(text, <<Tok("lf")>>, LineSep) \o LineSep

\* f.write(text): "\n" becomes os.linesep
WriteText(text) == StrReplace(text, <<Tok("lf")>>, LineSep)

NoFile == [exists |-> FALSE, bytes |-> <<>>]
File(bytes) == [exists |-> TRUE, bytes |-> bytes]

(***************************************************************************)
(* The configured collision tables: known_collisions of XcodeProjectFixer  *)
(* and collision_fixes of PreciseXcodeProjectFixer.  Entry i has the old   *)
(* identifier i and the group name i; the tables are iterated in order.    *)
(***************************************************************************)
known_collisions == [i \in OldUuids |-> [name |-> i]]
collision_fixes == [i \in OldUuids |-> [group_name |-> i]]

\* set(re.findall(r'[A-F0-9]{24}', content))
ExistingUuids(c) == Range(FindAllUuids(c))

\* generate_unique_uuid_set(count, existing): every set of `count` identifiers
\* the generator can return, none of them in `existing`
generate_unique_uuid_set(count, existing) ==
    {S \in SUBSET (Uuid \ existing) : Cardinality(S) = count}

\* XcodeProjectFixer.generate_replacement_uuids: list(new_uuids) enumerates the
\* set in an order the program does not control
XReplacementMaps(c) ==
    UNION {{m \in [OldUuids -> S] : \A a, b \in OldUuids : a # b => m[a] # m[b]} :
              S \in generate_unique_uuid_set(Cardinality(DOMAIN known_collisions),
                                             ExistingUuids(c))}

\* PreciseXcodeProjectFixer.generate_replacement_uuids: one identifier at a
\* time, each added to existing_uuids before the next is drawn
RECURSIVE PMint(_, _, _)
PMint(i, existing, m) ==
    IF i > NumOld THEN {m}
    ELSE UNION {PMint(i + 1, existing \cup {n}, [m EXCEPT ![i] = n]) :
                    n \in Uuid \ existing}

PReplacementMaps(c) == PMint(1, ExistingUuids(c), [i \in OldUuids |-> 0])

(***************************************************************************)
(* PreciseXcodeProjectFixer: the rewrite phases and the validator.         *)
(***************************************************************************)
RECURSIVE PFixGroupDefinitionsFrom(_, _, _)
PFixGroupDefinitionsFrom(c, map, old) ==
    IF old > NumOld THEN c
    ELSE LET group_name == collision_fixes[old].group_name
             old_line_pattern == <<Id(old), Cmt(group_name), Tok("eq")>>
             new_line_pattern == <<Id(map[old]), Cmt(group_name), Tok("eq")>>
         IN  PFixGroupDefinitionsFrom(
                 IF Contains(c, old_line_pattern)
                 THEN StrReplace(c, old_line_pattern, new_line_pattern)
                 ELSE c,
                 map, old + 1)

PFixGroupDefinitions(c, map) == PFixGroupDefinitionsFrom(c, map, 1)

RECURSIVE PFixParentReferencesFrom(_, _, _)
PFixParentReferencesFrom(c, map, old) ==
    IF old > NumOld THEN c
    ELSE LET group_name == collision_fixes[old].group_name
             old_ref_pattern == <<Id(old), Cmt(group_name)>>
             new_ref_pattern == <<Id(map[old]), Cmt(group_name)>>
         IN  PFixParentReferencesFrom(
                 IF StrCount(c, old_ref_pattern) > 0
                 THEN StrReplace(c, old_ref_pattern, new_ref_pattern)
                 ELSE c,
                 map, old + 1)

\* the references replaced by the bare identifier, without its label
RECURSIVE PFixBareReferencesFrom(_, _, _)
PFixBareReferencesFrom(c, map, old) ==
    IF old > NumOld THEN c
    ELSE PFixBareReferencesFrom(StrReplace(c, <<Id(old)>>, <<Id(map[old])>>),
                                map, old + 1)

PFixBareReferences(c, map) == PFixBareReferencesFrom(c, map, 1)

PFixParentReferences(c, map) == PFixParentReferencesFrom(c, map, 1)

\* validate_fix: no configured identifier occurs more than twice
validate_fix(c) ==
    \A old \in DOMAIN collision_fixes :
        ~(StrCount(c, <<Id(old)>>) > CollisionThreshold)

(***************************************************************************)
(* XcodeProjectFixer: collision detection, the rewrite phases and the      *)
(* four validators.                                                        *)
(***************************************************************************)
\* detect_collisions: identifier -> number of occurrences, for the
\* identifiers that occur more than twice
detect_collisions(c) ==
    [u \in {v \in ExistingUuids(c) : UuidCount(c, v) > CollisionThreshold} |->
        UuidCount(c, u)]

\* index of the first token at or after i that holds the character ch
\* ("}" or ")"), 0 when there is none
ClosingKinds(ch) == IF ch = "}" THEN {"close"} ELSE {"pclose"}

FirstClosing(s, i, ch) ==
    LET I == {j \in i..Len(s) : s[j][1] \in ClosingKinds(ch)}
    IN  IF I = {} THEN 0 ELSE CHOOSE j \in I : \A k \in I : j <= k

\* re.search of "(OLD = {[^}]+isa = PBXGroup[^}]+})": the span <<first, last>>
\* of the leftmost match, <<0, 0>> when there is none.  Neither [^}]+ can
\* cross a "}", so a match ends at the first "}" after its " = {".
GroupDefinitionMatches(s, old) ==
    {i \in 1..Len(s) :
        /\ StartsAt(s, <<Id(old), Tok("eq")>>, i)
        /\ FirstClosing(s, i + 2, "}") # 0
        /\ \E j \in (i + 2)..(FirstClosing(s, i + 2, "}") - 1) : s[j] = <<"isa", 1>>}

SearchGroupDefinition(s, old) ==
    LET M == GroupDefinitionMatches(s, old)
    IN  IF M = {} THEN <<0, 0>>
        ELSE LET i == CHOOSE a \in M : \A b \in M : a <= b
             IN  <<i, FirstClosing(s, i + 2, "}")>>

RECURSIVE XFixGroupDefinitionsFrom(_, _, _)
XFixGroupDefinitionsFrom(c, map, old) ==
    IF old > NumOld THEN c
    ELSE LET match == SearchGroupDefinition(c, old)
             group1 == SubSeq(c, match[1], match[2])
             replacement == StrReplaceFirst(group1, <<Id(old)>>, <<Id(map[old])>>)
         IN  XFixGroupDefinitionsFrom(
                 IF match[1] # 0 THEN StrReplace(c, group1, replacement) ELSE c,
                 map, old + 1)

XFixGroupDefinitions(c, map) == XFixGroupDefinitionsFrom(c, map, 1)

\* re.findall of "(children = \([^)]*)OLD([^)]*\))": the pairs <<group 1,
\* group 2>> of the non-overlapping matches from position i on, left to
\* right.  A match starts at a "children = (", ends at the first ")" after
\* it, and the greedy first group takes the last OLD before that ")".
RECURSIVE FindChildren(_, _, _)
FindChildren(s, old, i) ==
    IF i > Len(s) THEN <<>>
    ELSE LET e == FirstClosing(s, i + 1, ")")
             J == IF e = 0 THEN {} ELSE {j \in (i + 1)..(e - 1) : s[j] = Id(old)}
         IN  IF s[i] = Tok("ch") /\ J # {}
             THEN LET j == CHOOSE a \in J : \A b \in J : b <= a
                  IN  <<<<SubSeq(s, i, j - 1), SubSeq(s, j + 1, e)>>>>
                          \o FindChildren(s, old, e + 1)
             ELSE FindChildren(s, old, i + 1)

\* the loop over the matches: old_children and new_children prepend
\* "children = (" to group 1 and append ")" to group 2, which hold them already
RECURSIVE ReplaceChildren(_, _, _, _)
ReplaceChildren(c, matches, old, new) ==
    IF matches = <<>> THEN c
    ELSE LET match == Head(matches)
             old_children == <<Tok("ch")>> \o match[1] \o <<Id(old)>>
                                 \o match[2] \o <<Tok("pclose")>>
             new_children == <<Tok("ch")>> \o match[1] \o <<Id(new)>>
                                 \o match[2] \o <<Tok("pclose")>>
         IN  ReplaceChildren(StrReplace(c, old_children, new_children),
                             Tail(matches), old, new)

RECURSIVE XFixParentReferencesFrom(_, _, _)
XFixParentReferencesFrom(c, map, old) ==
    IF old > NumOld THEN c
    ELSE XFixParentReferencesFrom(
             ReplaceChildren(c, FindChildren(c, old, 1), old, map[old]),
             map, old + 1)

XFixParentReferences(c, map) == XFixParentReferencesFrom(c, map, 1)

\* validate_uuid_uniqueness: no identifier token occurs twice
validate_uuid_uniqueness(c) ==
    Len(FindAllUuids(c)) = Cardinality(Range(FindAllUuids(c)))

\* re.findall(r'([A-F0-9]{24}) = {', content)
ObjectDefinitions(c) ==
    {c[i][2] : i \in {j \in 1..(Len(c) - 1) : c[j][1] = "id" /\ c[j + 1] = Tok("eq")}}

\* validate_object_references: no identifier without a definition
validate_object_references(c) == ExistingUuids(c) \ ObjectDefinitions(c) = {}

\* the entries of required_sections the content has no Begin marker for, in
\* the order of the list
RECURSIVE MissingSectionsFrom(_, _)
MissingSectionsFrom(c, section) ==
    IF section > NumSections THEN <<>>
    ELSE (IF Contains(c, <<<<"sec", section>>>>) THEN <<>> ELSE <<section>>)
             \o MissingSectionsFrom(c, section + 1)

missing_sections(c) == MissingSectionsFrom(c, 1)

validate_project_structure(c) == missing_sections(c) = <<>>

\* content.count of one delimiter character
CharCount(c, kinds) == Cardinality({i \in DOMAIN c : c[i][1] \in kinds})

\* validate_xcode_format: header, balanced braces, balanced parentheses
validate_xcode_format(c) ==
    /\ StartsWith(c, <<Tok("hdr")>>)
    /\ CharCount(c, {"eq", "open"}) - CharCount(c, {"close"}) = 0
    /\ CharCount(c, {"ch", "files"}) - CharCount(c, {"pclose"}) = 0

(***************************************************************************)
(* fix_infoplist_conflict: the four text edits.                            *)
(***************************************************************************)
\* 0DD18F0E2E7FBB1900A893D7 and 0DD18F062E7FBB1900A893D7
InfoBuildUuid == NumUuid + 1
InfoFileUuid == NumUuid + 2

\* the labels "Info.plist in Resources" and "Info.plist"
InfoBuildLabel == 0 - 1
InfoFileLabel == 0 - 2

infoplist_buildfile_line ==
    <<Id(InfoBuildUuid), Cmt(InfoBuildLabel), Tok("eq"), Tok("ipisa"),
      Id(InfoFileUuid), Cmt(InfoFileLabel), Tok("semisp"), Tok("close"), Tok("semi")>>

infoplist_resource_line == <<Id(InfoBuildUuid), Cmt(InfoBuildLabel), Tok("comma")>>

RemoveBuildFileEntry(c) ==
    IF Contains(c, infoplist_buildfile_line)
    THEN StrReplace(c, infoplist_buildfile_line, <<>>)
    ELSE c

RemoveResourceEntry(c) ==
    IF Contains(c, infoplist_resource_line)
    THEN StrReplace(c, infoplist_resource_line, <<>>)
    ELSE c

DisableGeneration(c) == StrReplace(c, <<Tok("genyes")>>, <<Tok("genno")>>)

AddInfoplistSetting(c) ==
    StrReplace(c, <<Tok("genno")>>, <<Tok("genno"), Tok("nltabs"), Tok("ipfile")>>)

InfoPlistEdits(c) ==
    AddInfoplistSetting(DisableGeneration(RemoveResourceEntry(RemoveBuildFileEntry(c))))

(***************************************************************************)
(* State.                                                                  *)
(***************************************************************************)
VARIABLES
    fixer,             \* which script runs: "collisions", "precise", "infoplist"
    disk,              \* project.pbxproj: [exists, bytes]
    tmp,               \* project.pbxproj.tmp: [exists, bytes]
    content,           \* self.content (content of fix_infoplist_conflict)
    original_content,  \* self.original_content
    collision_map,     \* self.collision_map / replacement_map: old -> new
    collisions,        \* the dictionary detect_collisions returned
    pc,                \* the statement the run is at
    result,            \* "none", "true", "false", or "raised" (uncaught exception)
    rerun,             \* the run is a second rerun, on the file of a first
    disk0,             \* history: the project file when the run began
    ioFailed,          \* history: an I/O operation of the run has failed
    failedCheck,       \* history: the validator check that failed (0: none)
    reported,          \* history: the missing sections the run printed
    commitStarted,     \* history: save_project of the working copy has begun
    log,               \* history: the writes of the run to the project file
    loadFailed,        \* history: the read of the project file has failed
    fourPassed,        \* history: the four validators have passed on content
    prevContent        \* history: content when the previous run ended

vars == <<fixer, disk, tmp, content, original_content, collision_map, collisions,
          pc, result, rerun, disk0, ioFailed, failedCheck, reported, commitStarted,
          log, loadFailed, fourPassed, prevContent>>

hist == <<disk0, failedCheck, reported, commitStarted, prevContent>>

Fixers == {"collisions", "precise", "infoplist"}

NoMap == [i \in {} |-> 0]

(***************************************************************************)
(* The project files a run can start from.  A file is a prelude (header,   *)
(* line break, section markers), possibly with one defect, followed by up  *)
(* to MaxSegs segments of the library, in library order.                   *)
(***************************************************************************)
\* an identifier of the file that is not in the collision tables
OtherUuid == NumOld + 1

\* the constructs the two identifier repairs look for
UuidLibrary ==
    << <<Id(1), Cmt(0), Tok("eq"), <<"isa", 2>>, Tok("close")>>,  \* build file
       <<Id(1), Cmt(1), Tok("eq"), <<"isa", 1>>, Tok("close")>>,  \* group, labelled
       <<Tok("ch"), Id(1), Cmt(1), Tok("pclose")>>,               \* its reference
       <<Tok("files"), Id(1), Cmt(0), Tok("pclose")>>,            \* build file's
       <<Id(1), Tok("eq"), <<"isa", 1>>, Tok("close")>>,          \* group, bare
       <<Tok("ch"), Id(1), Tok("pclose")>>,                       \* bare reference
       <<Tok("ch"), Tok("ch"), Id(1), Tok("pclose"), Tok("pclose")>>,  \* nested
       <<Tok("ch"), Id(1), Tok("eq"), <<"isa", 2>>, Tok("close"), Tok("pclose"),
         Tok("ch"), Tok("ch"), Id(1), Tok("eq"), <<"isa", 2>>, Tok("close"),
         Tok("pclose"), Tok("pclose")>>,          \* objects defined inside lists
       <<Id(OtherUuid), Tok("eq"), <<"isa", 1>>, Tok("close")>>,  \* another group
       <<Id(NumOld), Cmt(NumOld), Tok("eq"), <<"isa", 1>>, Tok("close"),
         Tok("ch"), Id(NumOld), Cmt(NumOld), Tok("pclose")>> >>   \* last entry's

\* the constructs fix_infoplist_conflict looks for
InfoLibrary ==
    << <<Tok("genyes")>>,
       infoplist_buildfile_line,
       <<Tok("files")>> \o infoplist_resource_line \o <<Tok("pclose")>>,
       <<Tok("genno")>> >>

RECURSIVE Concat(_, _, _)
Concat(lib, S, i) ==
    IF i > Len(lib) THEN <<>>
    ELSE (IF i \in S THEN lib[i] ELSE <<>>) \o Concat(lib, S, i + 1)

Bodies(lib) ==
    {Concat(lib, S, 1) : S \in {T \in SUBSET DOMAIN lib : Cardinality(T) <= MaxSegs}}

RECURSIVE Sections(_, _)
Sections(missing, section) ==
    IF section > NumSections THEN <<>>
    ELSE (IF section = missing THEN <<>> ELSE <<<<"sec", section>>>>)
             \o Sections(missing, section + 1)

Preludes ==
    { <<Tok("hdr"), Tok("lf")>> \o Sections(0, 1),                \* well formed
      <<Tok("hdr"), Tok("cr"), Tok("lf")>> \o Sections(0, 1),     \* CRLF line ends
      <<Tok("hdr"), Tok("lf"), Tok("open")>> \o Sections(0, 1),   \* stray "{"
      <<Tok("hdr"), Tok("lf")>> \o Sections(1, 1) }               \* no PBXBuildFile

\* a missing file, a file that is not UTF-8, and the preludes with a body
Files(lib) ==
    {NoFile, File(<<Tok("hdr"), Tok("lf"), Tok("bad")>>)}
        \cup {File(p \o b) : p \in Preludes, b \in Bodies(lib)}

Init ==
    /\ fixer \in Fixers
    /\ disk \in Files(IF fixer = "infoplist" THEN InfoLibrary ELSE UuidLibrary)
    /\ tmp = NoFile
    /\ content = <<>>
    /\ original_content = <<>>
    /\ collision_map = NoMap
    /\ collisions = NoMap
    /\ pc = "start"
    /\ result = "none"
    /\ rerun = FALSE
    /\ disk0 = disk
    /\ ioFailed = FALSE
    /\ failedCheck = 0
    /\ reported = <<>>
    /\ commitStarted = FALSE
    /\ log = <<>>
    /\ loadFailed = FALSE
    /\ fourPassed = FALSE
    /\ prevContent = <<>>

(***************************************************************************)
(* save_project.                                                           *)
(***************************************************************************)
\* what a write that fails part-way leaves in the file it writes to
Partials(bytes) ==
    {SubSeq(bytes, 1, k) : k \in {0, Len(bytes) - 1} \cap (0..(Len(bytes) - 1))}

\* XcodeProjectFixer.save_project: write project.pbxproj.tmp, then move it
\* over project.pbxproj; any exception makes it return False.
\* modified: the project file was opened for writing or replaced.
XSaveProject(d, t, text) ==
    {[ok |-> TRUE, disk |-> File(WriteText(text)), tmp |-> NoFile, modified |-> TRUE]}
    \cup {[ok |-> FALSE, disk |-> d, tmp |-> t, modified |-> FALSE]}
    \cup {[ok |-> FALSE, disk |-> d, tmp |-> File(b), modified |-> FALSE] :
              b \in Partials(WriteText(text))}
    \cup {[ok |-> FALSE, disk |-> d, tmp |-> File(WriteText(text)), modified |-> FALSE]}

\* PreciseXcodeProjectFixer.save_project: open project.pbxproj for writing,
\* which truncates it, and write the content in place
PSaveProject(d, t, text) ==
    {[ok |-> TRUE, disk |-> File(WriteText(text)), tmp |-> t, modified |-> TRUE]}
    \cup {[ok |-> FALSE, disk |-> d, tmp |-> t, modified |-> FALSE]}
    \cup {[ok |-> FALSE, disk |-> File(b), tmp |-> t, modified |-> TRUE] :
              b \in Partials(WriteText(text))}

save_project(fx, d, t, text) ==
    IF fx = "collisions" THEN XSaveProject(d, t, text) ELSE PSaveProject(d, t, text)

\* the entry a save adds to the log of writes to the project file
Logged(by, text, o) ==
    IF o.modified THEN <<[by |-> by, text |-> text, ok |-> o.ok]>> ELSE <<>>

(***************************************************************************)
(* fix_project of XcodeProjectFixer and of PreciseXcodeProjectFixer, one   *)
(* action per method call.                                                 *)
(***************************************************************************)
UuidFixer == fixer \in {"collisions", "precise"}

\* load_project: the file is read in full, or the open or the read raises
LoadProject ==
    /\ pc = "start"
    /\ UuidFixer
    /\ \/ /\ disk.exists
          /\ Decodable(disk.bytes)
          /\ content' = ReadText(disk.bytes)
          /\ original_content' = ReadText(disk.bytes)
          /\ pc' = IF fixer = "collisions" THEN "detect" ELSE "generate"
          /\ UNCHANGED <<ioFailed, loadFailed>>
       \/ /\ ioFailed' = TRUE
          /\ loadFailed' = TRUE
          /\ pc' = "except"
          /\ UNCHANGED <<content, original_content>>
    /\ UNCHANGED <<fourPassed, fixer, disk, tmp, collision_map, collisions,
                   result, rerun, log, hist>>

\* XcodeProjectFixer only: no collision is reported as success
DetectCollisions ==
    /\ pc = "detect"
    /\ collisions' = detect_collisions(content)
    /\ IF DOMAIN detect_collisions(content) = {}
       THEN pc' = "done" /\ result' = "true"
       ELSE pc' = "generate" /\ UNCHANGED result
    /\ UNCHANGED <<loadFailed, fourPassed, fixer, disk, tmp, content,
                   original_content, collision_map, rerun, ioFailed, log,
                   hist>>

ReplacementMaps(fx, c) ==
    IF fx = "collisions" THEN XReplacementMaps(c) ELSE PReplacementMaps(c)

GenerateReplacementUuids ==
    /\ pc = "generate"
    /\ \E m \in ReplacementMaps(fixer, content) : collision_map' = m
    /\ pc' = "fix_defs"
    /\ UNCHANGED <<loadFailed, fourPassed, fixer, disk, tmp, content,
                   original_content, collisions, result, rerun, ioFailed, log,
                   hist>>

FixGroupDefinitions ==
    /\ pc = "fix_defs"
    /\ content' = IF fixer = "collisions"
                  THEN XFixGroupDefinitions(content, collision_map)
                  ELSE PFixGroupDefinitions(content, collision_map)
    /\ pc' = "fix_refs"
    /\ UNCHANGED <<loadFailed, fourPassed, fixer, disk, tmp, original_content,
                   collision_map, collisions, result, rerun, ioFailed, log,
                   hist>>

FixParentReferences ==
    /\ pc = "fix_refs"
    /\ content' = IF fixer = "collisions"
                  THEN XFixParentReferences(content, collision_map)
                  ELSE PFixParentReferences(content, collision_map)
    /\ pc' = IF fixer = "collisions" THEN "validate_all" ELSE "validate_fix"
    /\ UNCHANGED <<loadFailed, fourPassed, fixer, disk, tmp, original_content,
                   collision_map, collisions, result, rerun, ioFailed, log,
                   hist>>

\* the validator calls of XcodeProjectFixer.fix_project, in order: the number
\* of the first check that fails, 0 when all four pass
FirstFailedCheck(c) ==
    IF ~validate_uuid_uniqueness(c) THEN 1
    ELSE IF ~validate_object_references(c) THEN 2
    ELSE IF ~validate_project_structure(c) THEN 3
    ELSE IF ~validate_xcode_format(c) THEN 4
    ELSE 0

\* phase 4 of XcodeProjectFixer.fix_project; validate_project_structure prints
\* the missing sections when it is the check that fails
ValidateAll ==
    /\ pc = "validate_all"
    /\ failedCheck' = FirstFailedCheck(content)
    /\ reported' = IF FirstFailedCheck(content) = 3 THEN missing_sections(content)
                   ELSE <<>>
    /\ fourPassed' = (FirstFailedCheck(content) = 0)
    /\ pc' = IF FirstFailedCheck(content) = 0 THEN "save" ELSE "rollback"
    /\ UNCHANGED <<loadFailed, fixer, disk, tmp, content, original_content,
                   collision_map, collisions, result, rerun, ioFailed, log,
                   disk0, commitStarted, prevContent>>

\* PreciseXcodeProjectFixer only
ValidateFix ==
    /\ pc = "validate_fix"
    /\ failedCheck' = IF validate_fix(content) THEN 0 ELSE 1
    /\ pc' = IF validate_fix(content) THEN "save" ELSE "rollback"
    /\ UNCHANGED <<loadFailed, fourPassed, fixer, disk, tmp, content,
                   original_content, collision_map, collisions, result, rerun,
                   ioFailed, log, disk0, reported, commitStarted,
                   prevContent>>

\* "if not self.save_project(): self.rollback(); return False"
SaveProject ==
    /\ pc = "save"
    /\ commitStarted' = TRUE
    /\ \E o \in save_project(fixer, disk, tmp, content) :
          /\ disk' = o.disk
          /\ tmp' = o.tmp
          /\ log' = log \o Logged("save", content, o)
          /\ IF o.ok
             THEN pc' = "done" /\ result' = "true" /\ UNCHANGED ioFailed
             ELSE pc' = "rollback" /\ ioFailed' = TRUE /\ UNCHANGED result
    /\ UNCHANGED <<loadFailed, fourPassed, fixer, content, original_content,
                   collision_map, collisions, rerun, disk0, failedCheck,
                   reported, prevContent>>

\* rollback, from a failed validator, a failed save or the except branch,
\* followed by "return False"
Rollback ==
    /\ pc \in {"rollback", "except"}
    /\ content' = original_content
    /\ \E o \in save_project(fixer, disk, tmp, original_content) :
          /\ disk' = o.disk
          /\ tmp' = o.tmp
          /\ log' = log \o Logged("rollback", original_content, o)
          /\ ioFailed' = (ioFailed \/ ~o.ok)
    /\ pc' = "done"
    /\ result' = "false"
    /\ UNCHANGED <<loadFailed, fourPassed, fixer, original_content,
                   collision_map, collisions, rerun, hist>>

(***************************************************************************)
(* fix_infoplist_conflict: read, edit, write; no exception is caught.      *)
(***************************************************************************)
InfoPlistRead ==
    /\ pc = "start"
    /\ fixer = "infoplist"
    /\ \/ /\ disk.exists
          /\ Decodable(disk.bytes)
          /\ content' = ReadText(disk.bytes)
          /\ original_content' = ReadText(disk.bytes)
          /\ pc' = "edit"
          /\ UNCHANGED <<ioFailed, loadFailed, result>>
       \/ /\ ioFailed' = TRUE
          /\ loadFailed' = TRUE
          /\ pc' = "done"
          /\ result' = "raised"
          /\ UNCHANGED <<content, original_content>>
    /\ UNCHANGED <<fourPassed, fixer, disk, tmp, collision_map, collisions,
                   rerun, log, hist>>

InfoPlistEdit ==
    /\ pc = "edit"
    /\ content' = InfoPlistEdits(content)
    /\ pc' = "write"
    /\ UNCHANGED <<loadFailed, fourPassed, fixer, disk, tmp, original_content,
                   collision_map, collisions, result, rerun, ioFailed, log,
                   hist>>

\* the in-place write of step 5; its outcomes are those of an in-place
\* save_project, with the exception left to propagate
InfoPlistWrite ==
    /\ pc = "write"
    /\ \E o \in PSaveProject(disk, tmp, content) :
          /\ disk' = o.disk
          /\ log' = log \o Logged("save", content, o)
          /\ result' = IF o.ok THEN "true" ELSE "raised"
          /\ ioFailed' = ~o.ok
    /\ pc' = "done"
    /\ UNCHANGED <<loadFailed, fourPassed, fixer, tmp, content,
                   original_content, collision_map, collisions, rerun, hist>>

(***************************************************************************)
(* The same script is started again on the file a successful run left.     *)
(***************************************************************************)
Restart ==
    /\ pc = "done"
    /\ result = "true"
    /\ ~rerun
    /\ rerun' = TRUE
    /\ pc' = "start"
    /\ result' = "none"
    /\ content' = <<>>
    /\ original_content' = <<>>
    /\ collision_map' = NoMap
    /\ collisions' = NoMap
    /\ disk0' = disk
    /\ prevContent' = content
    /\ ioFailed' = FALSE
    /\ failedCheck' = 0
    /\ reported' = <<>>
    /\ commitStarted' = FALSE
    /\ log' = <<>>
    /\ loadFailed' = FALSE
    /\ fourPassed' = FALSE
    /\ UNCHANGED <<fixer, disk, tmp>>

Next ==
    \/ LoadProject
    \/ DetectCollisions
    \/ GenerateReplacementUuids
    \/ FixGroupDefinitions
    \/ FixParentReferences
    \/ ValidateAll
    \/ ValidateFix
    \/ SaveProject
    \/ Rollback
    \/ InfoPlistRead
    \/ InfoPlistEdit
    \/ InfoPlistWrite
    \/ Restart

Spec == Init /\ [][Next]_vars

(***************************************************************************)
(* Properties.                                                             *)
(***************************************************************************)
Done == pc = "done"

\* C1 (atomicity): a repair run without I/O failure in which a validator
\* check failed leaves the project file byte for byte as it was before the run.
C1_Atomicity ==
    (Done /\ UuidFixer /\ ~ioFailed /\ failedCheck # 0) => disk = disk0

\* C2: however a repair run ends, the project file holds the original content
\* or the content the run repaired, validated and saved in full.
C2_OriginalOrRepaired ==
    (Done /\ UuidFixer) =>
        \/ disk = disk0
        \/ result = "true" /\ commitStarted /\ disk = File(WriteText(content))

\* C3: every text written to the project file that differs from the original
\* was written after the four structural checks had passed on it.
C3_ValidatedBeforePersist ==
    \A i \in DOMAIN log :
        (log[i].text # original_content) => fourPassed

\* C4: a run whose load failed ends in failure, has written nothing to the
\* project file, and leaves the file as it was.
C4_LoadFailureWritesNothing ==
    (Done /\ loadFailed) => (result # "true" /\ log = <<>> /\ disk = disk0)

\* C5: rollback writes to the project file only after a save of the working
\* copy has left the file partly written; it never writes when the run did not
\* reach the save.
C5_RollbackWritesOnlyAfterPartialPersist ==
    \A i \in DOMAIN log :
        (log[i].by = "rollback") =>
            /\ commitStarted
            /\ i > 1
            /\ log[i - 1].by = "save"
            /\ ~log[i - 1].ok

\* C6 (mapping injectivity): the replacement mapping is one-to-one and no new
\* identifier is an old identifier of the collision table.
C6_MappingInjectiveDisjoint ==
    (UuidFixer /\ collision_map # NoMap) =>
        /\ \A a, b \in OldUuids : a # b => collision_map[a] # collision_map[b]
        /\ Range(collision_map) \cap OldUuids = {}

\* number of defining occurrences "ID = {" and "ID /* label */ = {" of u
DefiningOccurrences(c, u) ==
    Cardinality({i \in DOMAIN c :
        /\ c[i] = Id(u)
        /\ \/ StartsAt(c, <<Tok("eq")>>, i + 1)
           \/ i + 1 <= Len(c) /\ c[i + 1][1] = "cmt" /\ StartsAt(c, <<Tok("eq")>>, i + 2)})

\* C7 (uniqueness): in a document a successful commit has written, no
\* identifier is defined twice.
C7_CommittedDefinitionsUnique ==
    (Done /\ UuidFixer /\ result = "true" /\ commitStarted) =>
        \A u \in ExistingUuids(content) : DefiningOccurrences(content, u) <= 1

\* C8 (idempotence): in a second run of a repair on the file its successful
\* first run left, the detector reports nothing, no validator fails, the
\* rewrite phases leave the content as the first run left it, and a second run
\* without I/O failure succeeds with the file unchanged.
C8_SecondRunIsNoOp ==
    (rerun /\ UuidFixer) =>
        /\ collisions = NoMap
        /\ failedCheck = 0
        /\ (pc \in {"validate_all", "validate_fix", "save"}) => content = prevContent
        /\ (Done /\ ~ioFailed) =>
               (result = "true" /\ content = prevContent /\ disk = disk0)

\* a second run of the precise repair, on a file whose group definition the
\* first run re-keyed, has saved and ended
C8_Witness ==
    /\ rerun
    /\ fixer = "precise"
    /\ Done
    /\ result = "true"
    /\ ~ioFailed
    /\ Len(log) = 1
    /\ \E old \in OldUuids : \E u \in Uuid \ {old} :
           /\ Contains(content, <<Id(u), Cmt(old), Tok("eq")>>)
           /\ ~Contains(content, <<Id(old), Cmt(old)>>)

\* Scenario A: identifier `old` has three occurrences, the definition of the
\* duplicate (labelled with the group name), the duplicate's reference in a
\* children list, and the original object's reference in a files list.
ScenarioA(c, old) ==
    /\ UuidCount(c, old) = 3
    /\ DefiningOccurrences(c, old) = 1
    /\ StrCount(c, <<Id(old), Cmt(old), Tok("eq")>>) = 1
    /\ StrCount(c, <<Tok("ch"), Id(old), Cmt(old)>>) = 1
    /\ StrCount(c, <<Tok("files"), Id(old), Cmt(0)>>) = 1

\* the precise repair has finished its rewrite phases
PRewritten ==
    /\ fixer = "precise"
    /\ ~rerun
    /\ pc \in {"validate_fix", "save", "rollback", "done"}
    /\ ~loadFailed

\* the occurrences of `old` that carry the group name of `old`
OwnOccurrences(c, old) ==
    {i \in DOMAIN c : c[i] = Id(old) /\ StartsAt(c, <<Cmt(old)>>, i + 1)}

C10_MissingSectionFailsCheck3 ==
    (Done /\ fixer = "collisions" /\ ~rerun /\ ~loadFailed
          /\ missing_sections(original_content) # <<>>) =>
        /\ result = "false"
        /\ failedCheck = 3
        /\ reported = missing_sections(original_content)

\* C11: the four edits of fix_infoplist_conflict, applied in sequence to a
\* document they have already transformed, give back that same document.
C11_EditsIdempotent ==
    (fixer = "infoplist" /\ pc = "write") => InfoPlistEdits(content) = content

\* the positions of identifier `old` inside a children list: after a
\* "children = (" and before the first ")" that follows it
ChildrenOccurrences(c, old) ==
    {j \in DOMAIN c :
        /\ c[j] = Id(old)
        /\ \E i \in 1..(j - 1) :
               c[i] = Tok("ch") /\ FirstClosing(c, i + 1, ")") > j}

\* C12: XcodeProjectFixer.fix_parent_references puts the mapped new
\* identifier at every place where a children list held an old identifier of
\* the replacement mapping, and afterwards no children list holds that old
\* identifier.
C12_ChildrenListsRewritten ==
    [][(fixer = "collisions" /\ pc = "fix_refs" /\ pc' = "validate_all") =>
          \A old \in DOMAIN collision_map :
              /\ \A j \in ChildrenOccurrences(content, old) :
                     /\ j \in DOMAIN content'
                     /\ content'[j] = Id(collision_map[old])
              /\ ChildrenOccurrences(content', old) = {}]_vars

\* the writes of the run to the project file were all made by rollback
OnlyRollbackWrote == \A k \in DOMAIN log : log[k].by = "rollback"

\* C13: a run of XcodeProjectFixer in which detect_collisions has reported an
\* identifier never starts saving its working copy; once past validation it
\* has failed the uniqueness check, it writes through rollback only, and it
\* ends returning False.
C13_CollisionsNeverSaved ==
    (fixer = "collisions" /\ DOMAIN collisions # {}) =>
        /\ pc # "save"
        /\ ~commitStarted
        /\ OnlyRollbackWrote
        /\ (pc \in {"rollback", "done"}) => failedCheck = 1
        /\ Done => result = "false"

====
